---- MODULE Spec2Model ----
(***************************************************************************)
(* A model of simple_file_server: the session store and the authorization  *)
(* middleware of pkg/auth/auth.go, and the path handling of the file       *)
(* handlers of main.go over an abstract filesystem.                        *)
(*                                                                         *)
(* Time is the reading of time.Now() in seconds.  A virtual path (a form   *)
(* value or a URL path) is the sequence of its "/"-separated segments, the *)
(* empty segment "" standing for a leading or doubled slash; an absolute   *)
(* filesystem path is the sequence of its components below "/".            *)
(***************************************************************************)
EXTENDS Integers, Sequences, FiniteSets, TLC

VARIABLES
    now,        \* the reading of time.Now()
    sessions,   \* auth.go: var sessions map[string]UserSession
    issued,     \* the tokens set as cookies by successful logins so far
    nLogins,    \* successful logins so far (capped by MaxLogins)
    fs,         \* the filesystem: absolute path -> "file" | "dir"
    last,       \* what the last request handled in one piece was and did
    pc,         \* per goroutine: where its handler stands
    loc,        \* per goroutine: its request and its local variables
    crashed     \* the runtime stopped the process with a fatal error

vars == <<now, sessions, issued, nLogins, fs, last, pc, loc, crashed>>

----------------------------------------------------------------------------
(* Bounds *)

MaxEarly == 1
MaxLate == 1
MaxLogins == 2
MaxItems == 3
MaxDeleted == 2
MaxFiles == 1
MaxChanged == 1
NumProcs == 2

(* Program constants *)

\* const sessionDuration = time.Hour * 24, in seconds
sessionDuration == 86400

Users == {"alice", "bob"}

\* r.Cookie(SessionCookieName) returned an error: the request has no cookie
NoCookie == "NoCookie"

\* The readings of the clock the model visits: the first seconds, and the
\* seconds around the expiry of the sessions created in the first seconds.
Instants ==
    (0 .. MaxEarly) \cup ((sessionDuration - 1) .. (sessionDuration + MaxLate))

\* The readings the concurrent model visits: the first seconds, and one
\* after the expiry of a session created at the first.
ConcInstants == (0 .. MaxEarly) \cup {sessionDuration + MaxLate}

----------------------------------------------------------------------------
(* The session store: pkg/auth/auth.go *)

\* type UserSession struct { Username string; Expires time.Time }
UserSession(username, expires) == [Username |-> username, Expires |-> expires]

NoSessions == [t \in {} |-> UserSession("", 0)]

\* delete(sessions, token): a no-op when the key is absent
MapDelete(s, token) == [k \in DOMAIN s \ {token} |-> s[k]]

\* sessions[token] = v: replaces the entry of an existing key
MapStore(s, token, v) == [k \in DOMAIN s \cup {token} |-> IF k = token THEN v ELSE s[k]]

\* session := sessions[token]: the zero value when the key is absent
MapLoad(s, token) == IF token \in DOMAIN s THEN s[token] ELSE UserSession("", 0)

\* fmt.Sprintf("%d", time.Now().UnixNano()): the decimal form of the reading
GenerateSessionToken(t) == ToString(t)

\* session.Expires.Before(time.Now())
Before(expires, t) == expires < t

\* IsValidSessionToken(token), called at reading t: its result and the store
\* it leaves.
\* IsValidSessionToken as it would be if an expired entry were left in the map
IsValidSessionTokenKeeping(s, token, t) ==
    IF token \notin DOMAIN s
    THEN [valid |-> FALSE, store |-> s]
    ELSE [valid |-> ~Before(s[token].Expires, t), store |-> s]

\* IsValidSessionToken as it would be if a successful validation renewed the
\* session
IsValidSessionTokenSliding(s, token, t) ==
    IF token \notin DOMAIN s
    THEN [valid |-> FALSE, store |-> s]
    ELSE IF Before(s[token].Expires, t)
         THEN [valid |-> FALSE, store |-> MapDelete(s, token)]
         ELSE [valid |-> TRUE,
               store |-> MapStore(s, token, UserSession(s[token].Username, t + sessionDuration))]

\* IsValidSessionToken as it would be if every lookup also swept the store
\* of all expired sessions
IsValidSessionTokenSweeping(s, token, t) ==
    LET swept == [k \in {k \in DOMAIN s : ~Before(s[k].Expires, t)} |-> s[k]] IN
    IF token \notin DOMAIN s
    THEN [valid |-> FALSE, store |-> swept]
    ELSE [valid |-> ~Before(s[token].Expires, t), store |-> swept]

IsValidSessionToken(s, token, t) ==
    IF token \notin DOMAIN s
    THEN [valid |-> FALSE, store |-> s]
    ELSE IF Before(s[token].Expires, t)
         THEN [valid |-> FALSE, store |-> MapDelete(s, token)]
         ELSE [valid |-> TRUE, store |-> s]

\* LoginHandler, after PamAuthenticate succeeded: the store with the new
\* session, token and expiresAt both from the reading t.
LoginStore(s, username, t) ==
    MapStore(s, GenerateSessionToken(t), UserSession(username, t + sessionDuration))

\* LogoutHandler: the store after the request (cookie = NoCookie: r.Cookie
\* returned an error).
\* LogoutHandler's effect as it would be if it ended every session
LogoutStoreAll(s, cookie) ==
    IF cookie # NoCookie THEN NoSessions ELSE s

LogoutStore(s, cookie) ==
    IF cookie # NoCookie THEN MapDelete(s, cookie) ELSE s

----------------------------------------------------------------------------
(* Paths: path/filepath as main.go uses it *)

\* var baseDir string, set from the configuration: the absolute path /base
baseDir == <<"base">>

DropLast(q) == SubSeq(q, 1, Len(q) - 1)

\* filepath.Clean of the rooted path "/" + stack + "/" + segs: empty and "."
\* segments are dropped, ".." removes the component before it and is dropped
\* at the root.
RECURSIVE CleanFrom(_, _)
CleanFrom(stack, segs) ==
    IF segs = <<>>
    THEN stack
    ELSE LET h == Head(segs) IN
         CleanFrom(
             IF h \in {"", "."} THEN stack
             ELSE IF h = ".." THEN (IF stack = <<>> THEN <<>> ELSE DropLast(stack))
             ELSE Append(stack, h),
             Tail(segs))

\* filepath.Join(baseDir, item): Clean(baseDir + "/" + item)
FilepathJoin(base, item) == CleanFrom(<<>>, base \o item)

\* q is root or a descendant of it, component by component
IsWithin(root, q) == Len(q) >= Len(root) /\ SubSeq(q, 1, Len(root)) = root

----------------------------------------------------------------------------
(* The filesystem: package os *)

\* an fs operation's outcome: whether it returned an error, and the
\* filesystem it leaves
FsResult(err, f) == [err |-> err, fs |-> f]

Exists(f, q) == q \in DOMAIN f

IsDir(f, q) == q \in DOMAIN f /\ f[q] = "dir"

\* the proper ancestors of q
Ancestors(q) == {SubSeq(q, 1, n) : n \in 0 .. (Len(q) - 1)}

Restrict(f, keep) == [k \in keep |-> f[k]]

Extend(f, add, kind) == [k \in DOMAIN f \cup add |-> IF k \in DOMAIN f THEN f[k] ELSE kind]

\* what is at q or below it
Subtree(f, q) == {k \in DOMAIN f : IsWithin(q, k)}

\* os.Stat(q): an error unless q exists
StatErr(f, q) == ~Exists(f, q)

\* os.RemoveAll(q): removes q and everything below it; nil when q does not
\* exist, an error when a component of q is a file or q is "/".
RemoveAll(f, q) ==
    IF q = <<>>
    THEN FsResult(TRUE, Restrict(f, {<<>>}))
    ELSE IF Exists(f, q)
         THEN FsResult(FALSE, Restrict(f, DOMAIN f \ Subtree(f, q)))
         ELSE FsResult(\E a \in Ancestors(q) : Exists(f, a) /\ ~IsDir(f, a), f)

\* os.Mkdir(q): an error when q exists or its parent is not a directory
Mkdir(f, q) ==
    IF Exists(f, q) \/ ~IsDir(f, DropLast(q))
    THEN FsResult(TRUE, f)
    ELSE FsResult(FALSE, Extend(f, {q}, "dir"))

\* os.MkdirAll(q): nil when q is a directory; creates q and its missing
\* ancestors; an error when q or an ancestor is a file.
MkdirAll(f, q) ==
    IF \E a \in Ancestors(q) \cup {q} : Exists(f, a) /\ ~IsDir(f, a)
    THEN FsResult(TRUE, f)
    ELSE FsResult(FALSE, Extend(f, Ancestors(q) \cup {q}, "dir"))

\* os.Create(q): creates or truncates the file q; an error when q is a
\* directory or its parent is not one.
Create(f, q) ==
    IF q = <<>> \/ IsDir(f, q) \/ ~IsDir(f, DropLast(q))
    THEN FsResult(TRUE, f)
    ELSE FsResult(FALSE, Extend(f, {q}, "file"))

\* the paths an operation created or removed
Changed(f, g) == (DOMAIN f \ DOMAIN g) \cup (DOMAIN g \ DOMAIN f)

----------------------------------------------------------------------------
(* Requests and what a handler did with one *)

\* The record of a request handled in one piece.  at, present and expires
\* describe the store as the request found it: the reading of the clock,
\* whether the cookie's token was a key of sessions, and that entry's Expires.
\* checked and valid: IsValidSessionToken was called, and what it returned.
\* invoked: the route's handler ran.  setCookie, setExpires: the cookie the
\* response sets.  paths: the virtual paths of the request; calls: the paths
\* passed to package os; touched: the paths created, written or removed.
\* events: what the handler did, in order.  files: the items a download
\* kept; entries: the names in the directory of the container it wrote.
\* before: the filesystem as the request found it.
NoRequest ==
    [route |-> "", method |-> "", cookie |-> NoCookie, at |-> 0,
     present |-> FALSE, expires |-> 0, checked |-> FALSE, valid |-> FALSE,
     invoked |-> FALSE, xuser |-> "", username |-> "", resp |-> "",
     setCookie |-> NoCookie, setExpires |-> 0, setPath |-> "", setHttpOnly |-> FALSE,
     paths |-> {}, calls |-> {}, touched |-> {},
     items |-> <<>>, events |-> <<>>, files |-> <<>>, entries |-> <<>>,
     before |-> <<>>]

\* the request as it arrives, before any handler ran
Arrived(route, method, cookie, paths) ==
    [NoRequest EXCEPT !.route = route, !.method = method, !.cookie = cookie,
                      !.at = now, !.present = (cookie \in DOMAIN sessions),
                      !.expires = MapLoad(sessions, cookie).Expires,
                      !.paths = paths, !.before = fs]

\* a handler's outcome on the filesystem: its response, the filesystem it
\* leaves, the paths it passed to package os, the paths it created, wrote or
\* removed
Outcome(resp, f, calls, touched) ==
    [resp |-> resp, fs |-> f, calls |-> calls, touched |-> touched,
     events |-> <<>>, files |-> <<>>, entries |-> <<>>]

\* one thing a handler did: a call op on arg that failed or not; h numbers
\* the file handle the call opened or closed, 0 if none
Event(op, arg, h, err) == [op |-> op, arg |-> arg, h |-> h, err |-> err]

\* the calls that hand out a file handle when they succeed
Opening == {"os.Open", "fileHeader.Open", "os.Create"}

\* the number for the next handle: one more than the handles handed out
NextHandle(events) ==
    1 + Cardinality({i \in 1 .. Len(events) : events[i].op \in Opening /\ ~events[i].err})

\* the deferred Close calls run when the function returns, last deferred
\* first
RECURSIVE RunDeferred(_, _)
RunDeferred(events, deferred) ==
    IF deferred = <<>>
    THEN events
    ELSE RunDeferred(Append(events, Event("Close", <<>>, deferred[Len(deferred)], FALSE)),
                     DropLast(deferred))

\* the virtual paths a client sends in a form field:
\* "", "a", "d", "nope", "../base-evil", "/d/./f"
VPaths ==
    {<<>>, <<"a">>, <<"d">>, <<"nope">>, <<"..", "base-evil">>, <<"", "d", ".", "f">>}

\* r.Form["items"] of a download, among them "/base", the text of baseDir
ArchiveLists ==
    UNION {[1 .. n -> {<<"a">>, <<"d">>, <<"nope">>, <<"", "d", ".", "f">>, <<"", "base">>}] :
              n \in 0 .. MaxItems}

\* r.Form["items"] of a download of at most two of "a", "nope" and
\* "../base-evil"
PairLists == UNION {[1 .. n -> {<<"a">>, <<"nope">>, <<"..", "base-evil">>}] : n \in 0 .. 2}

\* r.Form["items"] of a deletion, among them "a/x", below the regular file a
HardDeleteLists ==
    UNION {[1 .. n -> {<<"a">>, <<"d">>, <<"nope">>, <<"a", "x">>}] : n \in 0 .. MaxDeleted}

\* the parts of an upload: file names, at most two
PartLists == UNION {[1 .. n -> {"u", "a"}] : n \in 0 .. 2}

\* r.Form["items"] of a deletion: up to MaxDeleted virtual paths
DeleteLists == UNION {[1 .. n -> VPaths] : n \in 0 .. MaxDeleted}

\* the form field folderName: "", "new", "a", "../base-evil/new"
FolderNames == {<<>>, <<"new">>, <<"a">>, <<"..", "base-evil", "new">>}

Range(seq) == {seq[i] : i \in 1 .. Len(seq)}

----------------------------------------------------------------------------
(* deleteHandler: main.go *)

\* the loop over items; events are the calls made so far
RECURSIVE DeleteItems(_, _, _, _, _)
DeleteItems(f, items, calls, touched, events) ==
    IF items = <<>>
    THEN [Outcome("303 currentPath", f, calls, touched)
             EXCEPT !.events = Append(events, Event("http.Redirect", <<>>, 0, FALSE))]
    ELSE LET fullPath == FilepathJoin(baseDir, Head(items))
             r == RemoveAll(f, fullPath)
             done == touched \cup Changed(f, r.fs)
             called == events \o <<Event("Join", fullPath, 0, FALSE),
                                   Event("os.RemoveAll", fullPath, 0, r.err)>>
         IN IF r.err
            THEN [Outcome("500 Error deleting item", r.fs, calls \cup {fullPath}, done)
                     EXCEPT !.events = Append(called, Event("http.Error", <<>>, 0, FALSE))]
            ELSE DeleteItems(r.fs, Tail(items), calls \cup {fullPath}, done, called)

deleteHandler(f, method, items) ==
    IF method # "POST" THEN Outcome("405 Method not allowed", f, {}, {})
    ELSE IF Len(items) = 0 THEN Outcome("400 No items selected for deletion", f, {}, {})
    ELSE DeleteItems(f, items, {}, {}, <<>>)

----------------------------------------------------------------------------
(* createFolderHandler: main.go *)

createFolderHandler(f, method, reqPath, folderName) ==
    IF method # "POST" THEN Outcome("405 Method not allowed", f, {}, {})
    ELSE IF folderName = <<>> THEN Outcome("400 Folder name is required", f, {}, {})
    ELSE LET fullPath == FilepathJoin(baseDir, reqPath \o folderName)
             r == Mkdir(f, fullPath)
         IN IF r.err
            THEN Outcome("500 Error creating folder", f, {fullPath}, {})
            ELSE Outcome("303 currentPath", r.fs, {fullPath}, {fullPath})

----------------------------------------------------------------------------
(* uploadHandler: main.go *)

\* what can go wrong with one uploaded part: fileHeader.Open fails,
\* os.Create fails, io.Copy fails
UploadFaults == {"none", "open", "create", "copy"}

\* the return as it would be if an error return skipped the deferred calls
ReturnedLeaking(resp, f, calls, touched, events, deferred) ==
    [Outcome(resp, f, calls, touched)
        EXCEPT !.events = IF resp = "303 currentPath"
                          THEN RunDeferred(Append(events, Event("http.Redirect", <<>>, 0, FALSE)),
                                           deferred)
                          ELSE Append(events, Event("http.Error", <<>>, 0, FALSE))]

\* the handler returns: its response is written, then the deferred Close
\* calls run
Returned(resp, f, calls, touched, events, deferred) ==
    [Outcome(resp, f, calls, touched)
        EXCEPT !.events = RunDeferred(
                   Append(events, Event(IF resp = "303 currentPath"
                                        THEN "http.Redirect" ELSE "http.Error",
                                        <<>>, 0, FALSE)),
                   deferred)]

\* the loop over r.MultipartForm.File["uploadFiles"]; a part's Filename is a
\* base name; faults[i] strikes the i-th part; deferred are the handles
\* whose Close is deferred
RECURSIVE UploadFiles(_, _, _, _, _, _, _, _)
UploadFiles(f, fullDestPath, files, faults, calls, touched, events, deferred) ==
    IF files = <<>>
    THEN Returned("303 currentPath", f, calls, touched, events, deferred)
    ELSE LET fault == Head(faults)
             dstPath == FilepathJoin(fullDestPath, <<Head(files)>>)
             r == Create(f, dstPath)
             file == NextHandle(events)
             opened == Append(events, Event("fileHeader.Open", <<Head(files)>>, file, FALSE))
             joined == Append(opened, Event("Join", dstPath, 0, FALSE))
             dst == NextHandle(joined)
             created == Append(joined, Event("os.Create", dstPath, dst, FALSE))
             copied == Append(created, Event("io.Copy", dstPath, 0, fault = "copy"))
         IN IF fault = "open"
            THEN Returned("400 Error getting file", f, calls, touched,
                          Append(events, Event("fileHeader.Open", <<Head(files)>>, 0, TRUE)),
                          deferred)
            ELSE IF r.err \/ fault = "create"
            THEN Returned("500 Error saving file", f, calls \cup {dstPath}, touched,
                          Append(joined, Event("os.Create", dstPath, 0, TRUE)),
                          Append(deferred, file))
            ELSE IF fault = "copy"
            THEN Returned("500 Error saving file", r.fs, calls \cup {dstPath},
                          touched \cup {dstPath}, copied, deferred \o <<file, dst>>)
            ELSE UploadFiles(r.fs, fullDestPath, Tail(files), Tail(faults),
                             calls \cup {dstPath}, touched \cup {dstPath},
                             copied, deferred \o <<file, dst>>)

\* uploadHandler on the form's currentPath and uploadFiles
uploadHandler(f, method, reqPath, files, faults) ==
    IF method # "POST" THEN Outcome("405 Method not allowed", f, {}, {})
    ELSE LET fullDestPath == FilepathJoin(baseDir, reqPath)
             r == MkdirAll(f, fullDestPath)
             made == <<Event("Join", fullDestPath, 0, FALSE),
                       Event("os.MkdirAll", fullDestPath, 0, r.err)>>
         IN IF r.err
            THEN Returned("500 Error creating directory", f, {fullDestPath}, {}, made, <<>>)
            ELSE UploadFiles(r.fs, fullDestPath, files, faults, {fullDestPath},
                             Changed(f, r.fs), made, <<>>)

----------------------------------------------------------------------------
(* downloadHandler: main.go *)

\* what can go wrong while one file is added to the archive: os.Open fails,
\* fileToZip.Stat fails, zip.FileInfoHeader or CreateHeader fails, io.Copy
\* fails reading the file part-way, io.Copy fails writing to the response
\* (the client has gone)
Faults == {"none", "open", "stat", "header", "read", "write"}

NoFaults == {"none"}

\* the loop as it would be if it stopped at the first item os.Stat fails on
RECURSIVE DownloadFilesUntilMissing(_, _)
DownloadFilesUntilMissing(f, items) ==
    IF items = <<>> \/ StatErr(f, FilepathJoin(baseDir, Head(items)))
    THEN <<>>
    ELSE (IF IsDir(f, FilepathJoin(baseDir, Head(items))) THEN <<>> ELSE <<Head(items)>>)
             \o DownloadFilesUntilMissing(f, Tail(items))

\* the loop as it would be if it kept directories
DownloadFilesWithDirs(f, items) ==
    SelectSeq(items, LAMBDA item : ~StatErr(f, FilepathJoin(baseDir, item)))

\* the loop as it would be if it kept every item
DownloadFilesAll(f, items) == items

\* the loop as it would be if it kept each file once, at its first place
DownloadFilesDistinct(f, items) ==
    LET keep == {i \in 1 .. Len(items) :
                    /\ ~StatErr(f, FilepathJoin(baseDir, items[i]))
                    /\ ~IsDir(f, FilepathJoin(baseDir, items[i]))
                    /\ \A j \in 1 .. i - 1 : items[j] # items[i]}
        kept[i \in 0 .. Len(items)] ==
            IF i = 0 THEN <<>>
            ELSE IF i \in keep THEN Append(kept[i - 1], items[i])
            ELSE kept[i - 1]
    IN kept[Len(items)]

\* the loop that keeps the items that exist and are no directory
DownloadFiles(f, items) ==
    SelectSeq(items, LAMBDA item :
        LET fullPath == FilepathJoin(baseDir, item)
        IN ~StatErr(f, fullPath) /\ ~IsDir(f, fullPath))

\* the events of that loop: a Join and an os.Stat per item
RECURSIVE StatItems(_, _, _)
StatItems(f, items, events) ==
    IF items = <<>>
    THEN events
    ELSE LET fullPath == FilepathJoin(baseDir, Head(items))
         IN StatItems(f, Tail(items),
                events \o <<Event("Join", fullPath, 0, FALSE),
                            Event("os.Stat", fullPath, 0, StatErr(f, fullPath))>>)

\* addFileToZip(zipWriter, filepath, relPath) under a fault: z is the
\* archive so far, its events, the entries of the directory zip.Writer keeps,
\* and whether a write to the response has failed.  CreateHeader puts the
\* header in the directory before the file's bytes are copied, and fails
\* once a write has failed.
addFileToZip(f, z, filepath, relPath, fault) ==
    LET h == NextHandle(z.events)
        opened == Append(z.events, Event("os.Open", filepath, h, FALSE))
        closed(events) == Append(events, Event("Close", filepath, h, FALSE))
        stat(err) == Append(opened, Event("File.Stat", filepath, 0, err))
        header(err) == Append(stat(FALSE), Event("CreateHeader", relPath, 0, err))
        read == Append(header(FALSE), Event("File.Read", filepath, 0, TRUE))
        written == Append(header(FALSE), Event("Response.Write", relPath, 0, TRUE))
        copying == IF fault = "read" THEN read ELSE IF fault = "write" THEN written
                   ELSE header(FALSE)
    IN IF fault = "open" \/ StatErr(f, filepath)
       THEN [z EXCEPT !.events = Append(z.events, Event("os.Open", filepath, 0, TRUE)),
                      !.err = TRUE]
       ELSE IF fault = "stat"
       THEN [z EXCEPT !.events = closed(stat(TRUE)), !.err = TRUE]
       ELSE IF IsDir(f, filepath)
       THEN [z EXCEPT !.events = closed(stat(FALSE)), !.err = FALSE]
       ELSE IF fault = "header" \/ z.broken
       THEN [z EXCEPT !.events = closed(header(TRUE)), !.err = TRUE]
       ELSE [z EXCEPT !.events = closed(Append(copying,
                                     Event("io.Copy", relPath, 0, fault \in {"read", "write"}))),
                      !.entries = Append(z.entries, relPath),
                      !.broken = (fault = "write"),
                      !.err = (fault \in {"read", "write"})]

\* logger.Logger.Errorf("error adding file to ZIP: %v", err) if addFileToZip
\* returned an error
LogError(r, file) ==
    IF r.err
    THEN [r EXCEPT !.events = Append(@, Event("Log", file, 0, FALSE))]
    ELSE r

\* the loop over files: addFileToZip on each, an error logged and the loop
\* going on
RECURSIVE AddFiles(_, _, _, _)
AddFiles(f, z, files, faults) ==
    IF files = <<>>
    THEN z
    ELSE AddFiles(f,
             LogError(addFileToZip(f,
                          [z EXCEPT !.events = Append(@, Event("Join",
                                        FilepathJoin(baseDir, Head(files)), 0, FALSE))],
                          FilepathJoin(baseDir, Head(files)), Head(files), Head(faults)),
                      Head(files)),
             Tail(files), Tail(faults))

\* the deferred Close as it would be if it were skipped after a failed write
CloseWriterUnlessBroken(z) ==
    IF z.broken THEN z.events ELSE Append(z.events, Event("zipWriter.Close", <<>>, 0, FALSE))

\* defer zipWriter.Close(): run when downloadHandler returns; it fails if a
\* write to the response has failed
CloseWriter(z) == Append(z.events, Event("zipWriter.Close", <<>>, 0, z.broken))

\* downloadHandler on r.Form["items"], faults[i] striking the i-th file kept
downloadHandler(f, items, faults) ==
    LET stats == {FilepathJoin(baseDir, item) : item \in Range(items)}
        files == DownloadFiles(f, items)
        looked == StatItems(f, items, <<>>)
        rejected == Event("http.Error", <<>>, 0, FALSE)
        first == FilepathJoin(baseDir, files[1])
        z == AddFiles(f,
                 [events |-> looked \o <<Event("Header.Set", <<>>, 0, FALSE),
                                         Event("Header.Set", <<>>, 0, FALSE),
                                         Event("zip.NewWriter", <<>>, 0, FALSE)>>,
                  entries |-> <<>>, broken |-> FALSE, err |-> FALSE],
                 files, faults)
    IN IF Len(items) = 0
       THEN [Outcome("400 No files selected for download", f, {}, {})
                EXCEPT !.events = <<rejected>>]
       ELSE IF Len(files) = 0
       THEN [Outcome("400 No files selected for download", f, stats, {})
                EXCEPT !.events = Append(looked, rejected)]
       ELSE IF Len(files) = 1
       THEN [Outcome("200 file", f, stats, {})
                EXCEPT !.events = looked \o <<Event("Join", first, 0, FALSE),
                                              Event("http.ServeFile", first, 0, FALSE)>>,
                       !.files = files]
       ELSE [Outcome("200 files.zip", f, stats, {})
                EXCEPT !.events = CloseWriter(z),
                       !.files = files, !.entries = z.entries]

----------------------------------------------------------------------------
(* AuthMiddlewareForActions: pkg/auth/auth.go *)

\* whether the request goes on to the wrapped handler, the store the
\* middleware leaves, and the X-User header it sets
AuthMiddlewareForActions(s, cookie, t) ==
    LET v == IsValidSessionToken(s, cookie, t) IN
    IF cookie = NoCookie
    THEN [pass |-> FALSE, store |-> s, xuser |-> ""]
    ELSE IF ~v.valid
         THEN [pass |-> FALSE, store |-> v.store, xuser |-> ""]
         ELSE [pass |-> TRUE, store |-> v.store,
               xuser |-> MapLoad(v.store, cookie).Username]

\* the test as it would be if it turned away what is no POST to the three
\* paths
ForwardPostOnly(method, route) ==
    method = "POST" /\ route \in {"/upload", "/delete", "/create-folder"}

\* the middleware's test once the session is found valid: a POST to one of
\* the three paths goes to next.ServeHTTP, and so does everything else
Forward(method, route) ==
    IF method = "POST" /\ route \in {"/upload", "/delete", "/create-folder"}
    THEN TRUE
    ELSE TRUE

\* a request to a route main registers as
\* http.Handle(route, auth.AuthMiddlewareForActions(protected)):
\* the record of the request, given the handler's outcome o if it runs
Protected(req, o) ==
    LET m == AuthMiddlewareForActions(sessions, req.cookie, now)
        served == m.pass /\ Forward(req.method, req.route)
        out == IF served
               THEN [o EXCEPT !.events = <<Event("next.ServeHTTP", <<>>, 0, FALSE)>> \o @]
               ELSE Outcome("303 /login", fs, {}, {})
    IN /\ sessions' = m.store
       /\ fs' = out.fs
       /\ last' = [req EXCEPT !.checked = (req.cookie # NoCookie),
                              !.valid = m.pass, !.invoked = served,
                              !.xuser = m.xuser, !.resp = out.resp,
                              !.calls = out.calls, !.touched = out.touched,
                              !.events = out.events]

----------------------------------------------------------------------------
(* The server handling one request at a time *)

Methods == {"GET", "POST", "PUT"}

\* what a client presents as its session cookie: nothing, a made-up token,
\* or a token a login has set
Cookies == {NoCookie, "bogus"} \cup issued

\* the file names of the uploaded parts
FileLists == UNION {[1 .. n -> {"u", "a"}] : n \in 0 .. MaxFiles}

\* the URL paths "/", "/a", "/d", "/d/", "/nope" as the server's mux hands
\* them to fileHandler
URLPaths == {<<"", "">>, <<"", "a">>, <<"", "d">>, <<"", "d", "">>, <<"", "nope">>}

InitFs ==
    [q \in {<<>>, <<"base">>, <<"base", "a">>, <<"base", "base">>, <<"base", "d">>,
            <<"base", "d", "f">>, <<"base-evil">>}
        |-> IF q \in {<<"base", "a">>, <<"base", "base">>, <<"base", "d", "f">>}
            THEN "file" ELSE "dir"]

Procs == 1 .. NumProcs

\* a goroutine's request and locals: the handler it runs (op), the cookie's
\* value, the form's username, sessionToken, expiresAt, session and exists of
\* IsValidSessionToken, the X-User header
NoLocals == [op |-> "", cookie |-> NoCookie, username |-> "", token |-> "",
             expiresAt |-> 0, exists |-> FALSE, session |-> UserSession("", 0),
             xuser |-> ""]

Init ==
    /\ now = 0
    /\ sessions = NoSessions
    /\ issued = {}
    /\ nLogins = 0
    /\ fs = InitFs
    /\ last = NoRequest
    /\ pc = [p \in Procs |-> "idle"]
    /\ loc = [p \in Procs |-> NoLocals]
    /\ crashed = FALSE

concVars == <<pc, loc, crashed>>

\* the server has answered the request before and takes the next one
Ready == last = NoRequest

\* the response is written and the request is over
Respond ==
    /\ last # NoRequest
    /\ last' = NoRequest
    /\ UNCHANGED <<now, sessions, issued, nLogins, fs, concVars>>

\* time passes: the clock reads a later instant of instants
Tick(instants) ==
    /\ Ready
    /\ ~crashed
    /\ \E t \in instants : t > now /\ now' = t
    /\ last' = NoRequest
    /\ UNCHANGED <<sessions, issued, nLogins, fs, concVars>>

\* the file handlers take a request while the filesystem differs from the initial one in
\* at most MaxChanged places
FsOpen == Ready /\ Cardinality(Changed(InitFs, fs)) <= MaxChanged

\* /upload with a method of methods, a cookie of cookies, the form field
\* currentPath among paths, the parts' file names among fileLists, each part
\* struck by a fault of faultSet
Upload(methods, cookies, paths, fileLists, faultSet) ==
    /\ FsOpen
    /\ \E method \in methods, cookie \in cookies, reqPath \in paths, files \in fileLists :
        \E faults \in [1 .. Len(files) -> faultSet] :
            /\ Protected([Arrived("/upload", method, cookie, {reqPath})
                              EXCEPT !.items = files],
                         uploadHandler(fs, method, reqPath, files, faults))
            /\ UNCHANGED <<now, issued, nLogins, concVars>>

\* /delete with a method of methods, a cookie of cookies and the form field
\* items among itemLists
Delete(methods, cookies, itemLists) ==
    /\ FsOpen
    /\ \E method \in methods, cookie \in cookies, items \in itemLists :
        /\ Protected([Arrived("/delete", method, cookie, Range(items))
                          EXCEPT !.items = items],
                     deleteHandler(fs, method, items))
        /\ UNCHANGED <<now, issued, nLogins, concVars>>

\* /create-folder with a method of methods, a cookie of cookies, the form
\* fields currentPath among paths and folderName among names
CreateFolder(methods, cookies, paths, names) ==
    /\ FsOpen
    /\ \E method \in methods, cookie \in cookies, reqPath \in paths, folderName \in names :
        /\ Protected(Arrived("/create-folder", method, cookie, {reqPath, folderName}),
                     createFolderHandler(fs, method, reqPath, folderName))
        /\ UNCHANGED <<now, issued, nLogins, concVars>>

\* the record of a request its handler answered with the outcome o
Served(req, o) ==
    [req EXCEPT !.resp = o.resp, !.calls = o.calls, !.events = o.events,
                !.files = o.files, !.entries = o.entries]

\* GET /download?items=... with items among itemLists, each file kept
\* struck by a fault of faultSet
Download(itemLists, faultSet) ==
    /\ FsOpen
    /\ \E items \in itemLists :
        \E faults \in [1 .. Len(DownloadFiles(fs, items)) -> faultSet] :
            /\ last' = Served([Arrived("/download", "GET", NoCookie, Range(items))
                                  EXCEPT !.invoked = TRUE, !.items = items],
                              downloadHandler(fs, items, faults))
            /\ UNCHANGED <<now, sessions, issued, nLogins, fs, concVars>>

\* fileHandler (the version with the login state): the response, and the
\* store its login-state check leaves
fileHandler(f, s, reqPath, cookie, t) ==
    LET fullPath == FilepathJoin(baseDir, reqPath)
        v == IsValidSessionToken(s, cookie, t)
        looked == cookie # NoCookie
        store == IF looked THEN v.store ELSE s
    IN IF StatErr(f, fullPath)
       THEN [resp |-> "404 Not found", store |-> s, checked |-> FALSE, valid |-> FALSE]
       ELSE [resp |-> IF ~IsDir(f, fullPath) THEN "200 file"
                      ELSE IF reqPath[Len(reqPath)] # "" THEN "301 reqPath/"
                      ELSE "200 index.html",
             store |-> store, checked |-> looked, valid |-> looked /\ v.valid]

\* GET /<path> with a cookie of cookies and the URL path among urls
FileGet(cookies, urls) ==
    /\ FsOpen
    /\ \E cookie \in cookies, reqPath \in urls :
        LET o == fileHandler(fs, sessions, reqPath, cookie, now) IN
        /\ sessions' = o.store
        /\ last' = [Arrived("/", "GET", cookie, {reqPath})
                        EXCEPT !.invoked = TRUE, !.resp = o.resp,
                               !.checked = o.checked, !.valid = o.valid,
                               !.calls = {FilepathJoin(baseDir, reqPath)}]
        /\ UNCHANGED <<now, issued, nLogins, fs, concVars>>

\* GET /check-session
CheckSessionHandler(s, cookie, t) ==
    LET v == IsValidSessionToken(s, cookie, t) IN
    IF cookie = NoCookie THEN [resp |-> "401 Unauthorized", store |-> s, valid |-> FALSE]
    ELSE IF ~v.valid THEN [resp |-> "401 Unauthorized", store |-> v.store, valid |-> FALSE]
    ELSE [resp |-> "200", store |-> v.store, valid |-> TRUE]

CheckSession ==
    \E cookie \in Cookies :
        LET o == CheckSessionHandler(sessions, cookie, now) IN
        /\ Ready
        /\ sessions' = o.store
        /\ last' = [Arrived("/check-session", "GET", cookie, {})
                        EXCEPT !.invoked = TRUE, !.resp = o.resp,
                               !.checked = (cookie # NoCookie), !.valid = o.valid]
        /\ UNCHANGED <<now, issued, nLogins, fs, concVars>>

\* /logout
Logout ==
    \E cookie \in Cookies :
        /\ Ready
        /\ sessions' = LogoutStore(sessions, cookie)
        /\ last' = [Arrived("/logout", "GET", cookie, {})
                        EXCEPT !.invoked = TRUE, !.resp = "303 referer",
                               !.setCookie = IF cookie # NoCookie THEN "" ELSE NoCookie]
        /\ UNCHANGED <<now, issued, nLogins, fs, concVars>>

\* the names a client submits to /login; PamAuthenticate knows those in Users
Usernames == Users \cup {"ghost"}

\* /login with GET, with another method, or with POST and credentials
\* PamAuthenticate rejects
Passwords == {"right", "wrong"}

\* PamAuthenticate as it would be if it let everyone in
PamAuthenticateAny(username, password) == ""

\* PamAuthenticate: the error of pam's Authenticate, "" for nil.  The
\* accounts are Users, each with the password "right".
PamAuthenticate(username, password) ==
    IF username \notin Users THEN "User not known to the underlying authentication module"
    ELSE IF password # "right" THEN "Authentication failure"
    ELSE ""

\* the answer as it would be if it passed pam's error on
LoginFailureTelling(err) ==
    IF err = "Authentication failure"
    THEN "200 login.html Authentication failed. Please try again."
    ELSE "200 login.html Unknown user."

\* what LoginHandler answers when PamAuthenticate returned err: login.html
\* rendered with the fixed Error text; err itself is not used
LoginFailure(err) ==
    "200 login.html Authentication failed. Please try again."

LoginNoSession ==
    \E method \in {"GET", "PUT", "POST"}, username \in Usernames, password \in Passwords :
        /\ Ready
        /\ method = "POST" => PamAuthenticate(username, password) # ""
        /\ last' = [Arrived("/login", method, NoCookie, {})
                        EXCEPT !.invoked = TRUE,
                               !.username = IF method = "POST" THEN username ELSE "",
                               !.resp = IF method = "GET" THEN "200 login.html"
                                        ELSE IF method = "POST"
                                        THEN LoginFailure(PamAuthenticate(username, password))
                                        ELSE "405 Method not allowed"]
        /\ UNCHANGED <<now, sessions, issued, nLogins, fs, concVars>>

\* the cookie as it would be without an expiry of its own
SessionCookieUntilClose(token, expiresAt) ==
    [Value |-> token, Path |-> "/", Expires |-> 0, HttpOnly |-> TRUE]

\* the cookie LoginHandler sets: http.SetCookie(w, &http.Cookie{Name:
\* SessionCookieName, Value: sessionToken, Path: "/", Expires: expiresAt,
\* HttpOnly: true})
SessionCookie(token, expiresAt) ==
    [Value |-> token, Path |-> "/", Expires |-> expiresAt, HttpOnly |-> TRUE]

LoginOk ==
    \E username \in Usernames :
        /\ Ready
        /\ PamAuthenticate(username, "right") = ""
        /\ nLogins < MaxLogins
        /\ now <= MaxEarly
        /\ sessions' = LoginStore(sessions, username, now)
        /\ issued' = issued \cup {GenerateSessionToken(now)}
        /\ nLogins' = nLogins + 1
        /\ last' = [Arrived("/login", "POST", NoCookie, {})
                        EXCEPT !.invoked = TRUE, !.username = username,
                               !.resp = "303 /",
                               !.setCookie = SessionCookie(GenerateSessionToken(now), now + sessionDuration).Value,
                               !.setExpires = SessionCookie(GenerateSessionToken(now), now + sessionDuration).Expires,
                               !.setPath = SessionCookie(GenerateSessionToken(now), now + sessionDuration).Path,
                               !.setHttpOnly = SessionCookie(GenerateSessionToken(now), now + sessionDuration).HttpOnly]
        /\ UNCHANGED <<now, fs, concVars>>

\* The session store with the protected routes: the clock, logins, logouts
\* and session checks, and the three mutating routes on one file.
Next ==
    \/ Respond
    \/ Tick(Instants)
    \/ LoginOk
    \/ LoginNoSession
    \/ Logout
    \/ CheckSession
    \/ FileGet(Cookies, {<<"", "">>, <<"", "nope">>})
    \/ Upload(Methods, Cookies, {<<>>}, {<<"a">>}, NoFaults)
    \/ Delete(Methods, Cookies, {<< <<"a">> >>})
    \/ CreateFolder(Methods, Cookies, {<<>>}, {<<"a">>})

Spec == Init /\ [][Next]_vars

\* The file handlers on every path, for clients that present the cookie of
\* a login at the first reading of the clock.
NextFiles ==
    \/ Respond
    \/ LoginOk
    \/ FileGet(issued, URLPaths)
    \/ Download(PairLists, NoFaults)
    \/ Upload({"POST"}, issued, VPaths, FileLists, NoFaults)
    \/ Delete({"POST"}, issued, DeleteLists)
    \/ CreateFolder({"POST"}, issued, VPaths, FolderNames)

SpecFiles == Init /\ [][NextFiles]_vars

\* Downloads, with what can go wrong while the archive is written.
NextArchive ==
    \/ Respond
    \/ Download(ArchiveLists, Faults)

SpecArchive == Init /\ [][NextArchive]_vars

\* Uploads, deletions and downloads, with what can go wrong in each.
NextMutate ==
    \/ Respond
    \/ LoginOk
    \/ Upload({"POST"}, issued, {<<>>, <<"d">>}, PartLists, UploadFaults)
    \/ Delete({"POST"}, issued, HardDeleteLists)
    \/ Download(PairLists, Faults)

SpecMutate == Init /\ [][NextMutate]_vars

----------------------------------------------------------------------------
(* The server handling requests concurrently: net/http runs each handler in *)
(* a goroutine of its own, and auth.go takes no lock around sessions.  A    *)
(* handler advances statement by statement; an access to the map sessions   *)
(* begins (Enter) and later completes.                                      *)

seqVars == <<fs, last>>

\* where a goroutine is about to access the map, and where it is inside it
AboutToAccess == {"valid_load", "valid_delete", "mw_load", "login_store", "logout_delete"}

Inside(at) ==
    CASE at = "valid_load" -> "valid_loading"
      [] at = "valid_delete" -> "valid_deleting"
      [] at = "mw_load" -> "mw_loading"
      [] at = "login_store" -> "login_storing"
      [] at = "logout_delete" -> "logout_deleting"

Reading == {"valid_loading", "mw_loading"}

Writing == {"valid_deleting", "login_storing", "logout_deleting"}

InMap(p) == pc[p] \in Reading \cup Writing

Goto(p, at, locals) ==
    /\ pc' = [pc EXCEPT ![p] = at]
    /\ loc' = [loc EXCEPT ![p] = locals]

\* LoginHandler, POST: PamAuthenticate has accepted username
StartLogin(p) ==
    \E username \in Users :
        /\ ~crashed /\ pc[p] = "idle"
        /\ nLogins < MaxLogins
        /\ now <= MaxEarly
        /\ nLogins' = nLogins + 1
        /\ Goto(p, "login_token", [NoLocals EXCEPT !.op = "login", !.username = username])
        /\ UNCHANGED <<now, sessions, issued, crashed, seqVars>>

\* sessionToken := GenerateSessionToken()
LoginToken(p) ==
    /\ ~crashed /\ pc[p] = "login_token"
    /\ Goto(p, "login_expires", [loc[p] EXCEPT !.token = GenerateSessionToken(now)])
    /\ UNCHANGED <<now, sessions, issued, nLogins, crashed, seqVars>>

\* expiresAt := time.Now().Add(sessionDuration)
LoginExpires(p) ==
    /\ ~crashed /\ pc[p] = "login_expires"
    /\ Goto(p, "login_store", [loc[p] EXCEPT !.expiresAt = now + sessionDuration])
    /\ UNCHANGED <<now, sessions, issued, nLogins, crashed, seqVars>>

\* a map access begins
Enter(p) ==
    /\ ~crashed /\ pc[p] \in AboutToAccess
    /\ Goto(p, Inside(pc[p]), loc[p])
    /\ UNCHANGED <<now, sessions, issued, nLogins, crashed, seqVars>>

\* the handler has answered and returned; the goroutine takes the next
\* request
Return(p) == Goto(p, "idle", NoLocals)

\* sessions[sessionToken] = UserSession{...} completes; the cookie is set
LoginStored(p) ==
    /\ ~crashed /\ pc[p] = "login_storing"
    /\ sessions' = MapStore(sessions, loc[p].token,
                            UserSession(loc[p].username, loc[p].expiresAt))
    /\ issued' = issued \cup {loc[p].token}
    /\ Return(p)
    /\ UNCHANGED <<now, nLogins, crashed, seqVars>>

\* LogoutHandler with a cookie: r.Cookie returned no error
StartLogout(p) ==
    \E cookie \in issued :
        /\ ~crashed /\ pc[p] = "idle"
        /\ Goto(p, "logout_delete", [NoLocals EXCEPT !.op = "logout", !.cookie = cookie])
        /\ UNCHANGED <<now, sessions, issued, nLogins, crashed, seqVars>>

\* delete(sessions, cookie.Value) completes
LogoutDeleted(p) ==
    /\ ~crashed /\ pc[p] = "logout_deleting"
    /\ sessions' = MapDelete(sessions, loc[p].cookie)
    /\ Return(p)
    /\ UNCHANGED <<now, issued, nLogins, crashed, seqVars>>

\* CheckSessionHandler (op = "check") or AuthMiddlewareForActions (op =
\* "action") with a cookie: IsValidSessionToken(cookie.Value) is called
StartValidate(p) ==
    \E op \in {"check", "action"}, cookie \in issued :
        /\ ~crashed /\ pc[p] = "idle"
        /\ Goto(p, "valid_load", [NoLocals EXCEPT !.op = op, !.cookie = cookie])
        /\ UNCHANGED <<now, sessions, issued, nLogins, crashed, seqVars>>

\* session, exists := sessions[token] completes
ValidLoaded(p) ==
    /\ ~crashed /\ pc[p] = "valid_loading"
    /\ Goto(p, "valid_test", [loc[p] EXCEPT !.session = MapLoad(sessions, loc[p].cookie),
                                            !.exists = (loc[p].cookie \in DOMAIN sessions)])
    /\ UNCHANGED <<now, sessions, issued, nLogins, crashed, seqVars>>

\* if !exists { return false }; if session.Expires.Before(time.Now()) {...};
\* return true.  On false both callers answer and return (401, or the
\* redirect to /login); on true CheckSessionHandler answers 200 and the
\* middleware goes on.
ValidTest(p) ==
    /\ ~crashed /\ pc[p] = "valid_test"
    /\ IF ~loc[p].exists THEN Return(p)
       ELSE IF Before(loc[p].session.Expires, now) THEN Goto(p, "valid_delete", loc[p])
       ELSE IF loc[p].op = "check" THEN Return(p)
       ELSE Goto(p, "mw_load", loc[p])
    /\ UNCHANGED <<now, sessions, issued, nLogins, crashed, seqVars>>

\* delete(sessions, token) completes; return false
ValidDeleted(p) ==
    /\ ~crashed /\ pc[p] = "valid_deleting"
    /\ sessions' = MapDelete(sessions, loc[p].cookie)
    /\ Return(p)
    /\ UNCHANGED <<now, issued, nLogins, crashed, seqVars>>

\* session := sessions[cookie.Value] completes, in a variable of the
\* middleware's own (loc[p].session stays what IsValidSessionToken read);
\* r.Header.Set("X-User", session.Username)
MiddlewareLoaded(p) ==
    /\ ~crashed /\ pc[p] = "mw_loading"
    /\ Goto(p, "serve", [loc[p] EXCEPT !.xuser = MapLoad(sessions, loc[p].cookie).Username])
    /\ UNCHANGED <<now, sessions, issued, nLogins, crashed, seqVars>>

\* next.ServeHTTP(w, r): the wrapped handler runs and returns
Serve(p) ==
    /\ ~crashed /\ pc[p] = "serve"
    /\ Return(p)
    /\ UNCHANGED <<now, sessions, issued, nLogins, crashed, seqVars>>

\* the runtime finds a map write in progress during another access and
\* stops the process: "fatal error: concurrent map read and map write",
\* "fatal error: concurrent map writes"
Fatal(p) ==
    /\ ~crashed /\ InMap(p)
    /\ \E q \in Procs \ {p} : InMap(q) /\ (pc[p] \in Writing \/ pc[q] \in Writing)
    /\ crashed' = TRUE
    /\ pc' = [q \in Procs |-> "exited"]
    /\ loc' = [q \in Procs |-> NoLocals]
    /\ UNCHANGED <<now, sessions, issued, nLogins, seqVars>>

NextConc ==
    \/ Tick(ConcInstants)
    \/ \E p \in Procs : StartLogin(p)
    \/ \E p \in Procs : LoginToken(p)
    \/ \E p \in Procs : LoginExpires(p)
    \/ \E p \in Procs : Enter(p)
    \/ \E p \in Procs : LoginStored(p)
    \/ \E p \in Procs : StartLogout(p)
    \/ \E p \in Procs : LogoutDeleted(p)
    \/ \E p \in Procs : StartValidate(p)
    \/ \E p \in Procs : ValidLoaded(p)
    \/ \E p \in Procs : ValidTest(p)
    \/ \E p \in Procs : ValidDeleted(p)
    \/ \E p \in Procs : MiddlewareLoaded(p)
    \/ \E p \in Procs : Serve(p)
    \/ \E p \in Procs : Fatal(p)

SpecConc == Init /\ [][NextConc]_vars

----------------------------------------------------------------------------
(* Path confinement *)

\* the normal form of a virtual path taken alone: ".." segments that have
\* nothing left to remove stay at its front
RECURSIVE Normalize(_, _)
Normalize(stack, segs) ==
    IF segs = <<>>
    THEN stack
    ELSE LET h == Head(segs) IN
         Normalize(
             IF h \in {"", "."} THEN stack
             ELSE IF h = ".." /\ stack # <<>> /\ stack[Len(stack)] # ".." THEN DropLast(stack)
             ELSE Append(stack, h),
             Tail(segs))

\* the virtual path's normalization leaves the root
LeavesRoot(p) == LET n == Normalize(<<>>, p) IN n # <<>> /\ Head(n) = ".."

\* C1: a request whose handler ran on a virtual path that leaves the root
\* was rejected as PathEscape, and no filesystem call was made on anything.
C1_EscapeRejected ==
    (last.invoked /\ \E p \in last.paths : LeavesRoot(p))
        => (last.resp = "PathEscape" /\ last.calls = {})

\* C2: everything the upload, create-folder and delete handlers created,
\* wrote or removed is the root directory or lies below it.
C2_TouchedWithinRoot ==
    \A q \in last.touched : IsWithin(baseDir, q)

----------------------------------------------------------------------------
(* Sessions *)

ProtectedRoutes == {"/upload", "/delete", "/create-folder"}

\* the request carried the token of a session that is valid as the
\* specification defines it: in the store, and now < expiresAt
HadValidSession(req) ==
    req.cookie # NoCookie /\ req.present /\ req.at < req.expires

\* C3: a request to a protected route without a valid session is redirected
\* to /login, its handler does not run, and the filesystem stays as it was.
C3_UnauthenticatedRejected ==
    (last.route \in ProtectedRoutes /\ ~HadValidSession(last))
        => (last.resp = "303 /login" /\ ~last.invoked /\ last.touched = {})

\* C4: IsValidSessionToken reports valid exactly when the token is in the
\* store and now < expiresAt.
C4_ValidIffLive ==
    last.checked => (last.valid <=> (last.present /\ last.at < last.expires))

\* the clock reading at which a token was generated
IssuedAt(token) == CHOOSE r \in Instants : GenerateSessionToken(r) = token

\* C8: a validation one second before a session's expiresAt reports valid;
\* one second after it, it reports invalid and the entry is gone from the
\* store; and any validation of a token from then on, the entry being
\* absent, reports invalid with an ordinary response.
C8_AroundExpiry ==
    last.checked =>
        /\ (last.present /\ last.at = last.expires - 1) => last.valid
        /\ (last.present /\ last.at = last.expires + 1)
               => (~last.valid /\ last.cookie \notin DOMAIN sessions)
        /\ (last.cookie \in issued /\ last.at >= IssuedAt(last.cookie) + sessionDuration + 1)
               => /\ ~last.valid
                  /\ last.cookie \notin DOMAIN sessions
                  /\ last.resp \in {"303 /login", "401 Unauthorized", "200 index.html"}

\* a session was validated one second after its expiresAt
C8_PurgedAfterExpiry ==
    /\ last.checked /\ last.present
    /\ last.at = last.expires + 1
    /\ ~last.valid

\* a request was handled in this step, and it validated its token
Validated == last = NoRequest /\ last'.checked /\ last'.valid

\* C9: a successful validation, by the middleware, /check-session or the
\* listing's login-state check, leaves the session's entry as it was:
\* same expiresAt, same username.
C9_ValidationKeepsSession ==
    [][Validated
          => /\ last'.cookie \in DOMAIN sessions /\ last'.cookie \in DOMAIN sessions'
             /\ sessions'[last'.cookie] = sessions[last'.cookie]]_vars

\* a session was validated successfully after its first second, with less
\* than sessionDuration left to live
C9_ValidatedLate ==
    /\ last.checked /\ last.valid
    /\ last.at + 1 = last.expires

\* a /logout request was handled in this step
LoggedOut == last = NoRequest /\ last'.route = "/logout"

\* C10: logout removes the entry of the cookie's token and no other, whether
\* or not the token was valid or present; with the token absent, or with no
\* cookie, the store is left as it was; the response is the redirect in
\* every case.
C10_LogoutUnconditional ==
    [][LoggedOut
          => /\ last'.resp = "303 referer"
             /\ last'.cookie \notin DOMAIN sessions'
             /\ \A t \in (DOMAIN sessions \cup DOMAIN sessions') \ {last'.cookie} :
                    /\ t \in DOMAIN sessions /\ t \in DOMAIN sessions'
                    /\ sessions'[t] = sessions[t]
             /\ (last'.cookie \notin DOMAIN sessions) => sessions' = sessions]_vars

\* a logout carried the token of a session, while another session was in the
\* store
C10_LoggedOutOfOne ==
    /\ last.route = "/logout" /\ last.present
    /\ last.cookie \notin DOMAIN sessions
    /\ DOMAIN sessions # {}

----------------------------------------------------------------------------
(* Sessions under concurrent requests *)

\* C5: as long as a token stays in the store, it belongs to the user whose
\* login created it: no step changes the username of an entry.
C5_UsernameKept ==
    [][\A t \in DOMAIN sessions \cap DOMAIN sessions' :
           sessions'[t].Username = sessions[t].Username]_vars

\* C6: accesses to the map sessions exclude one another: while a goroutine
\* is inside a write of the map, no other goroutine is inside an access of
\* it.
C6_MapAccessExclusive ==
    \A p, q \in Procs :
        (p # q /\ pc[p] \in Writing) => ~InMap(q)

\* the logins that hold a token they have generated and not yet returned
HoldsToken(p) == pc[p] \in {"login_expires", "login_store", "login_storing"}

\* C7: two logins never hold the same token, and a login never stores its
\* session under a token that is already a key of the store.
C7_TokensUnique ==
    /\ \A p, q \in Procs :
           (p # q /\ HoldsToken(p) /\ HoldsToken(q)) => loc[p].token # loc[q].token
    /\ \A p \in Procs :
           pc[p] = "login_storing" => loc[p].token \notin DOMAIN sessions

----------------------------------------------------------------------------
(* Downloads *)

\* the items of the last request that were regular files when it arrived
Selected ==
    SelectSeq(last.items, LAMBDA item :
        LET q == FilepathJoin(baseDir, item)
        IN q \in DOMAIN last.before /\ last.before[q] = "file")

\* the positions of the last request's events that are a call op
Calls(ops) == {i \in 1 .. Len(last.events) : last.events[i].op \in ops}

\* the positions of the calls that failed while the archive was written
Failed ==
    {i \in Calls({"os.Open", "File.Stat", "CreateHeader", "io.Copy"}) : last.events[i].err}

\* C11: a download of at least two regular files, no file operation of it
\* failing, answers with a container whose entries are the selected items
\* that are regular files, one entry each, in the order of the selection.
C11_EntriesInOrder ==
    (last.route = "/download" /\ Len(Selected) >= 2 /\ Failed = {})
        => (last.resp = "200 files.zip" /\ last.entries = Selected)

\* a container was written for a selection some of whose items were dropped
C11_ArchiveWithDropped ==
    /\ last.route = "/download" /\ last.resp = "200 files.zip"
    /\ Failed = {}
    /\ Len(last.entries) >= 2 /\ Len(last.items) > Len(last.entries)
    /\ last.entries[1] # last.entries[2]

\* C12: a download of which exactly one item is a regular file serves that
\* file directly, and opens no container writer.
C12_SingleFileDirect ==
    (last.route = "/download" /\ Len(Selected) = 1)
        => /\ last.resp = "200 file"
           /\ \E i \in Calls({"http.ServeFile"}) :
                  last.events[i].arg = FilepathJoin(baseDir, Selected[1])
           /\ Calls({"zip.NewWriter", "Header.Set", "CreateHeader"}) = {}
           /\ last.entries = <<>>

\* one file was served directly out of a selection of several items
C12_OneOfSeveral ==
    /\ last.route = "/download" /\ last.resp = "200 file"
    /\ Len(last.items) >= 2 /\ Len(Selected) = 1

\* C13: a download whose selection is empty, or holds only missing items
\* and directories, is answered 400 "No files selected for download", with
\* no container writer opened and no header of the archive set.
C13_NoSelection ==
    (last.route = "/download" /\ Len(Selected) = 0)
        => /\ last.resp = "400 No files selected for download"
           /\ Calls({"zip.NewWriter", "Header.Set", "http.ServeFile"}) = {}

\* a selection of a missing item and a directory was rejected
C13_AllDropped ==
    /\ last.route = "/download" /\ last.resp = "400 No files selected for download"
    /\ Len(last.items) >= 2
    /\ \E i, j \in 1 .. Len(last.items) :
           /\ FilepathJoin(baseDir, last.items[i]) \notin DOMAIN last.before
           /\ FilepathJoin(baseDir, last.items[j]) \in DOMAIN last.before

\* the text of the root directory's absolute path, as segments
RootText == <<"">> \o baseDir

\* C14: every entry of the container is named by the virtual path of its
\* file, and no entry's name begins with the root directory's absolute path.
C14_EntryNames ==
    \A i \in 1 .. Len(last.entries) :
        /\ last.entries[i] \in Range(last.items)
        /\ ~IsWithin(RootText, last.entries[i])

\* C15: while the archive is written, a file on which an operation fails
\* gets a log line and no entry, and every file kept is still attempted.
C15_FailedEntrySkipped ==
    last.resp = "200 files.zip"
        => /\ Len(last.entries) = Len(last.files) - Cardinality(Failed)
           /\ Cardinality(Calls({"Log"})) = Cardinality(Failed)
           /\ Cardinality(Calls({"os.Open"})) = Len(last.files)

\* C16: when an archive is written, the container writer is closed exactly
\* once, after every file kept has been attempted.
C16_ClosedOnceAtEnd ==
    last.resp = "200 files.zip"
        => /\ Cardinality(Calls({"zipWriter.Close"})) = 1
           /\ last.events[Len(last.events)].op = "zipWriter.Close"
           /\ Cardinality(Calls({"os.Open"})) = Len(last.files)

\* an archive was closed after a write to the response had failed
C16_ClosedAfterFailure ==
    /\ last.resp = "200 files.zip"
    /\ \E i \in Calls({"Response.Write"}) : last.events[i].err
    /\ Calls({"zipWriter.Close"}) # {}

\* C17: once a write to the response has failed, no later file is opened
\* and no later entry is written.
C17_StopsAfterWriteFailure ==
    \A i \in Calls({"Response.Write"}) :
        last.events[i].err
            => \A j \in Calls({"os.Open", "CreateHeader"}) : j < i

----------------------------------------------------------------------------
(* File handles and the order of a request's steps *)

\* the positions at which the last request was handed a file handle
Handles == {i \in Calls(Opening) : ~last.events[i].err}

\* C18: every file handle a handler opened, the file added to the archive,
\* an uploaded part or a destination file, is closed, once, before the
\* handler has returned, on the error returns as on the others.
C18_HandlesClosed ==
    \A i \in Handles :
        Cardinality({j \in Calls({"Close"}) :
                        j > i /\ last.events[j].h = last.events[i].h}) = 1

\* an upload returned on an error with the handles of an earlier part and of
\* the failing part open
C18_ErrorAfterSecondPart ==
    /\ last.route = "/upload" /\ last.resp = "500 Error saving file"
    /\ Cardinality(Handles) >= 3

\* C19: a deletion goes through every item of its selection, also after one
\* of them has failed.
C19_EveryItemProcessed ==
    (last.route = "/delete" /\ last.invoked /\ last.method = "POST")
        => Cardinality(Calls({"os.RemoveAll"})) = Len(last.items)

\* the calls that remove or write an item of the request
Mutations == {"os.RemoveAll", "os.Create"}

\* C20: in a deletion or an upload, every path of the request is resolved
\* before the first item is removed or written.
C20_ResolvedBeforeMutation ==
    last.route \in {"/delete", "/upload"}
        => \A i \in Calls({"Join"}), j \in Calls(Mutations) : i < j

----------------------------------------------------------------------------
(* The middleware and the login *)

\* C21: a request to a protected route whose session the middleware found
\* valid reaches the wrapped handler, once, whatever its method; if it is no
\* POST the handler answers 405 and the filesystem is as before.
C21_PassThrough ==
    (last.route \in ProtectedRoutes /\ last.valid)
        => /\ last.invoked
           /\ Cardinality(Calls({"next.ServeHTTP"})) = 1
           /\ last.method # "POST"
                 => /\ last.resp = "405 Method not allowed"
                    /\ last.touched = {}
                    /\ fs = last.before

\* a GET with a valid session was forwarded to a mutating handler
C21_GetForwarded ==
    /\ last.route = "/delete" /\ last.valid
    /\ last.method = "GET" /\ last.invoked

\* C22: when the wrapped handler runs, the X-User header of the request is
\* the username of the session IsValidSessionToken found under the
\* request's token, and it is not empty.
C22_XUserIsOwner ==
    \A p \in Procs :
        pc[p] = "serve" => /\ loc[p].xuser # ""
                           /\ loc[p].xuser = loc[p].session.Username

\* C23: a successful login leaves the store as it was but for the entry
\* under the token it made, which holds the submitted username and the expiry
\* now + sessionDuration; the cookie it sets has that token as its value
\* and that expiry as its Expires, Path "/" and HttpOnly.
C23_LoginStoresSession ==
    [][(last = NoRequest /\ last'.route = "/login" /\ last'.resp = "303 /")
          => /\ last'.setCookie \in DOMAIN sessions'
             /\ sessions'[last'.setCookie]
                    = UserSession(last'.username, last'.at + sessionDuration)
             /\ DOMAIN sessions' = DOMAIN sessions \cup {last'.setCookie}
             /\ \A t \in DOMAIN sessions \ {last'.setCookie} : sessions'[t] = sessions[t]
             /\ last'.setExpires = sessions'[last'.setCookie].Expires
             /\ last'.setPath = "/"
             /\ last'.setHttpOnly]_vars

\* a login has just stored a second session next to an earlier one
C23_SecondLoginStored ==
    /\ last.route = "/login" /\ last.resp = "303 /"
    /\ last.setCookie \in DOMAIN sessions
    /\ Cardinality(DOMAIN sessions) = 2

\* C24: GET /check-session answers 200 if the request carries the token of
\* a session that is in the store and not expired, and 401 otherwise.
C24_CheckSessionStatus ==
    last.route = "/check-session"
        => /\ last.resp \in {"200", "401 Unauthorized"}
           /\ last.resp = "200" <=> HadValidSession(last)

\* C25: every POST /login whose credentials PamAuthenticate rejected gets
\* the one same answer, the form with the fixed message, whichever username
\* was submitted, and no cookie.
C25_FailureSameForAll ==
    (last.route = "/login" /\ last.method = "POST" /\ last.resp # "303 /")
        => /\ last.resp = "200 login.html Authentication failed. Please try again."
           /\ last.setCookie = NoCookie

\* a login was rejected for a username that has no account
C25_UnknownUserRejected ==
    /\ last.route = "/login" /\ last.method = "POST"
    /\ last.resp # "303 /" /\ last.username \notin Users

\* C27: an entry appears in the session store, or changes, only in a POST
\* /login that PamAuthenticate accepted, and it holds the username of that
\* login, which is an account; no other request sets a cookie with a token.
C27_EntriesFromLogin ==
    [][/\ \A t \in DOMAIN sessions' :
              (t \notin DOMAIN sessions \/ sessions'[t] # sessions[t])
                  => /\ last'.route = "/login" /\ last'.method = "POST"
                     /\ last'.resp = "303 /"
                     /\ last'.setCookie = t
                     /\ sessions'[t].Username = last'.username
                     /\ last'.username \in Users
       /\ last'.setCookie \notin {NoCookie, ""}
              => (last'.route = "/login" /\ last'.method = "POST" /\ last'.resp = "303 /")]_vars

\* a login of alice was rejected while bob holds a session, and the store
\* holds nothing of alice
C27_RejectedNextToSession ==
    /\ last.route = "/login" /\ last.method = "POST" /\ last.resp # "303 /"
    /\ last.username = "alice"
    /\ DOMAIN sessions # {}
    /\ \A t \in DOMAIN sessions : sessions[t].Username = "bob"

\* C26: a session leaves the store only in a request that presents its
\* token, and that request is a logout or a lookup made after the session's
\* expiry; in every other step, the passing of time included, every session
\* of the store stays.
C26_LeavesByLogoutOrLookup ==
    [][\A t \in DOMAIN sessions \ DOMAIN sessions' :
           /\ last'.cookie = t
           /\ \/ last'.route = "/logout"
              \/ /\ last'.checked /\ ~last'.valid
                 /\ last'.at > sessions[t].Expires]_vars

\* an expired session is still in the store after a lookup of another token
C26_ExpiredStillStored ==
    /\ last.checked /\ last.cookie \notin DOMAIN sessions
    /\ \E t \in DOMAIN sessions : sessions[t].Expires < last.at

\* C28: a logout leaves every session but the one of the token it presents
\* as it was, and a successful login leaves every session already in the
\* store as it was and adds one under a token of its own, so that the
\* user's sessions are one more than before.
C28_OthersUntouched ==
    [][/\ (last = NoRequest /\ last'.route = "/logout")
              => \A t \in DOMAIN sessions \ {last'.cookie} :
                     t \in DOMAIN sessions' /\ sessions'[t] = sessions[t]
       /\ (last = NoRequest /\ last'.route = "/login" /\ last'.resp = "303 /")
              => /\ \A t \in DOMAIN sessions :
                        t \in DOMAIN sessions' /\ sessions'[t] = sessions[t]
                 /\ Cardinality({t \in DOMAIN sessions' : sessions'[t].Username = last'.username})
                        = Cardinality({t \in DOMAIN sessions : sessions[t].Username = last'.username}) + 1]_vars

----------------------------------------------------------------------------
(* The root directory and repeated selections *)

\* C29: after a request to /delete the configured root directory still
\* exists, whatever the items were.
C29_RootKept ==
    last.route = "/delete" => (Exists(fs, baseDir) /\ IsDir(fs, baseDir))

\* C30: a download that names the same regular file more than once is
\* answered with a container, never with the file itself, and, no file
\* operation failing, the container has as many entries of that item as
\* the selection names it.
C30_DuplicatesKept ==
    last.route = "/download"
        => \A i, j \in 1 .. Len(last.items) :
               (i < j /\ last.items[i] = last.items[j] /\ last.items[i] \in Range(Selected))
                   => /\ last.resp = "200 files.zip"
                      /\ Failed = {}
                            => Cardinality({k \in 1 .. Len(last.entries) :
                                               last.entries[k] = last.items[i]})
                                   = Cardinality({k \in 1 .. Len(last.items) :
                                                     last.items[k] = last.items[i]})

\* a container with two entries for a selection that was one file twice
C30_SameFileTwice ==
    /\ last.route = "/download" /\ last.resp = "200 files.zip"
    /\ Len(last.items) = 2 /\ last.items[1] = last.items[2]
    /\ Len(last.entries) = 2 /\ last.entries[1] = last.entries[2]

====
